---- MODULE Spec2Model ----
(***************************************************************************)
(* Lifecycle of the PCIe FPGA board driver (fpga_pci_pinned.c): the probe  *)
(* callback acquires six resources in order, unwinding on failure, the     *)
(* remove callback releases them, and the interrupt handler runs whenever  *)
(* the line it is registered on is signalled.  Every call of a kernel      *)
(* primitive is one step, so the states between two calls are visible.     *)
(***************************************************************************)
EXTENDS Integers, Sequences, FiniteSets, TLC

\* ---------------------------------------------------------------- bounds
\* kernel virtual addresses an ioremap / coherent allocation may return
MaxVAddr == 6
\* device-bus addresses a coherent allocation may return
MaxBus == 2
\* how often the host runtime calls probe for one device
MaxProbes == 2

\* ------------------------------------------------------------- constants
NULL == 0
ENOMEM == 12
dma_size == 4096
\* ~0 in the id table's unsigned fields
PCI_ANY_ID == -1

Devices == {1, 2}
VAddrs == 1..MaxVAddr
BusAddrs == 1..MaxBus
\* error codes a failing kernel primitive may hand back
Errnos == {-ENOMEM, -16, -19}
\* the (vendor, device) pairs a discovered device may carry
Idents == {4660, 4661} \X {22136, 22137}

\* ------------------------------------------------------- the id table
\* { PCI_DEVICE(0x1234, 0x5678) }, { 0 }: the zero entry ends the table
fpga_pci_ids_wild ==
    << [vendor |-> 4660, device |-> PCI_ANY_ID], [vendor |-> 0, device |-> 0] >>

fpga_pci_ids ==
    << [vendor |-> 4660, device |-> 22136], [vendor |-> 0, device |-> 0] >>

\* entries before the terminating zero entry
RECURSIVE TableEntries(_, _)
TableEntries(tbl, i) ==
    IF i > Len(tbl) \/ tbl[i].vendor = 0 THEN {}
    ELSE {tbl[i]} \cup TableEntries(tbl, i + 1)

\* the host runtime's match of a device against .id_table
Matches(v, dv) ==
    \E e \in TableEntries(fpga_pci_ids, 1) :
        /\ (e.vendor = PCI_ANY_ID \/ e.vendor = v)
        /\ (e.device = PCI_ANY_ID \/ e.device = dv)

\* ------------------------------------------------- per-device hardware
\* pdev->irq: both boards sit on the same shared line
PdevIrq(d) == 11
\* pci_resource_start(pdev, 0) and pci_resource_len(pdev, 0)
pci_resource_start(d) == d * 65536
pci_resource_len(d) == 4096

VARIABLES
    ident,      \* (vendor, device) pair of the device
    pc,         \* position of the device in its lifecycle / in probe / in remove
    probes,     \* number of probe calls made for the device
    enabled,    \* pci_enable_device in effect
    regions,    \* pci_request_regions in effect
    maps,       \* live I/O mappings of the device
    dmabufs,    \* live coherent buffers of the device
    irqreg,     \* handler registered on (pdev->irq, pdev)
    drvdata,    \* pci_set_drvdata value
    loc,        \* locals of the running probe / remove
    todo,       \* releases still to run in the current cleanup block
    ret,        \* value the last probe returned
    acqLog,     \* acquisition calls made since probe entry
    relLog,     \* release calls made since probe / remove entry
    irqlog      \* last dispatch of the interrupt handler, and whether the
                \* number of dispatches since probe entry is odd

vars == << ident, pc, probes, enabled, regions, maps, dmabufs, irqreg,
           drvdata, loc, todo, ret, acqLog, relLog, irqlog >>

NoLocals == [err |-> 0, irq |-> 0, hw_addr |-> NULL, wc_mem |-> NULL,
             dma_buffer |-> NULL, dma_handle |-> 0, rc |-> 0]

\* virtual addresses in use by any live mapping or buffer
UsedVAddrs ==
    UNION { {m.va : m \in maps[d]} \cup {b.cpu : b \in dmabufs[d]} : d \in Devices }
UsedBus == UNION { {b.bus : b \in dmabufs[d]} : d \in Devices }

Init ==
    /\ ident = [d \in Devices |-> << 0, 0 >>]
    /\ pc = [d \in Devices |-> "absent"]
    /\ probes = [d \in Devices |-> 0]
    /\ enabled = [d \in Devices |-> FALSE]
    /\ regions = [d \in Devices |-> FALSE]
    /\ maps = [d \in Devices |-> {}]
    /\ dmabufs = [d \in Devices |-> {}]
    /\ irqreg = [d \in Devices |-> FALSE]
    /\ drvdata = [d \in Devices |-> NULL]
    /\ loc = [d \in Devices |-> NoLocals]
    /\ todo = [d \in Devices |-> << >>]
    /\ ret = [d \in Devices |-> 0]
    /\ acqLog = [d \in Devices |-> << >>]
    /\ relLog = [d \in Devices |-> << >>]
    /\ irqlog = [d \in Devices |-> << >>]

\* ---------------------------------------------------------- log entries
Acq(op, ok, a, b) == [op |-> op, ok |-> ok, a |-> a, b |-> b]
Rel(op, a, b) == [op |-> op, a |-> a, b |-> b]

\* ------------------------------------------------------ cleanup blocks
\* the releases written in the failure branch of probe's step k
FailBlock_leaky(k) ==
    CASE k = 1 -> << >>
      [] k = 2 -> << "pci_disable_device" >>
      [] k = 3 -> << "pci_release_regions", "pci_disable_device" >>
      [] k = 4 -> << "pci_iounmap", "pci_release_regions", "pci_disable_device" >>
      [] k = 5 -> << "pci_iounmap", "pci_release_regions", "pci_disable_device" >>
      [] k = 6 -> << "dma_free_coherent", "iounmap", "pci_iounmap",
                     "pci_release_regions", "pci_disable_device" >>

FailBlock_swapped(k) ==
    CASE k = 1 -> << >>
      [] k = 2 -> << "pci_disable_device" >>
      [] k = 3 -> << "pci_release_regions", "pci_disable_device" >>
      [] k = 4 -> << "pci_release_regions", "pci_iounmap", "pci_disable_device" >>
      [] k = 5 -> << "iounmap", "pci_iounmap", "pci_release_regions",
                     "pci_disable_device" >>
      [] k = 6 -> << "dma_free_coherent", "iounmap", "pci_iounmap",
                     "pci_release_regions", "pci_disable_device" >>

FailBlock(k) ==
    CASE k = 1 -> << >>
      [] k = 2 -> << "pci_disable_device" >>
      [] k = 3 -> << "pci_release_regions", "pci_disable_device" >>
      [] k = 4 -> << "pci_iounmap", "pci_release_regions", "pci_disable_device" >>
      [] k = 5 -> << "iounmap", "pci_iounmap", "pci_release_regions",
                     "pci_disable_device" >>
      [] k = 6 -> << "dma_free_coherent", "iounmap", "pci_iounmap",
                     "pci_release_regions", "pci_disable_device" >>

\* the releases written in remove
RemoveBlock_swapped ==
    << "dma_free_coherent", "free_irq", "iounmap", "pci_iounmap",
       "pci_release_regions", "pci_disable_device" >>

RemoveBlock_irqlast ==
    << "dma_free_coherent", "iounmap", "pci_iounmap", "pci_release_regions",
       "pci_disable_device", "free_irq" >>

RemoveBlock ==
    << "free_irq", "dma_free_coherent", "iounmap", "pci_iounmap",
       "pci_release_regions", "pci_disable_device" >>

\* one release call, with its arguments read from the running function's locals
Release_irqall(d, op) ==
    /\ relLog' = [relLog EXCEPT ![d] = Append(@,
          CASE op = "free_irq" -> Rel(op, loc[d].irq, 0)
            [] op = "dma_free_coherent" -> Rel(op, loc[d].dma_buffer, loc[d].dma_handle)
            [] op = "iounmap" -> Rel(op, loc[d].wc_mem, 0)
            [] op = "pci_iounmap" -> Rel(op, loc[d].hw_addr, 0)
            [] OTHER -> Rel(op, 0, 0))]
    /\ irqreg' = [e \in Devices |->
          IF op = "free_irq" /\ loc[d].irq = PdevIrq(e) THEN FALSE ELSE irqreg[e]]
    /\ dmabufs' = [dmabufs EXCEPT ![d] =
          IF op = "dma_free_coherent"
          THEN {b \in @ : ~(b.cpu = loc[d].dma_buffer /\ b.bus = loc[d].dma_handle)}
          ELSE @]
    /\ maps' = [maps EXCEPT ![d] =
          CASE op = "iounmap" -> {m \in @ : m.va # loc[d].wc_mem}
            [] op = "pci_iounmap" -> {m \in @ : m.va # loc[d].hw_addr}
            [] OTHER -> @]
    /\ regions' = [regions EXCEPT ![d] = IF op = "pci_release_regions" THEN FALSE ELSE @]
    /\ enabled' = [enabled EXCEPT ![d] = IF op = "pci_disable_device" THEN FALSE ELSE @]

Release(d, op) ==
    /\ relLog' = [relLog EXCEPT ![d] = Append(@,
          CASE op = "free_irq" -> Rel(op, loc[d].irq, 0)
            [] op = "dma_free_coherent" -> Rel(op, loc[d].dma_buffer, loc[d].dma_handle)
            [] op = "iounmap" -> Rel(op, loc[d].wc_mem, 0)
            [] op = "pci_iounmap" -> Rel(op, loc[d].hw_addr, 0)
            [] OTHER -> Rel(op, 0, 0))]
    /\ irqreg' = [irqreg EXCEPT ![d] =
          IF op = "free_irq" /\ loc[d].irq = PdevIrq(d) THEN FALSE ELSE @]
    /\ dmabufs' = [dmabufs EXCEPT ![d] =
          IF op = "dma_free_coherent"
          THEN {b \in @ : ~(b.cpu = loc[d].dma_buffer /\ b.bus = loc[d].dma_handle)}
          ELSE @]
    /\ maps' = [maps EXCEPT ![d] =
          CASE op = "iounmap" -> {m \in @ : m.va # loc[d].wc_mem}
            [] op = "pci_iounmap" -> {m \in @ : m.va # loc[d].hw_addr}
            [] OTHER -> @]
    /\ regions' = [regions EXCEPT ![d] = IF op = "pci_release_regions" THEN FALSE ELSE @]
    /\ enabled' = [enabled EXCEPT ![d] = IF op = "pci_disable_device" THEN FALSE ELSE @]

\* step k of probe failed: run its cleanup block, then return rc
ProbeFail_enomem(d, k, rc) ==
    /\ loc' = [loc EXCEPT ![d].rc = -ENOMEM, ![d].err = IF k \in {1, 2, 6} THEN rc ELSE @]
    /\ todo' = [todo EXCEPT ![d] = FailBlock(k)]
    /\ IF FailBlock(k) = << >>
       THEN /\ pc' = [pc EXCEPT ![d] = "failed"]
            /\ ret' = [ret EXCEPT ![d] = -ENOMEM]
       ELSE /\ pc' = [pc EXCEPT ![d] = "unwind"]
            /\ UNCHANGED ret

ProbeFail(d, k, rc) ==
    /\ loc' = [loc EXCEPT ![d].rc = rc, ![d].err = IF k \in {1, 2, 6} THEN rc ELSE @]
    /\ todo' = [todo EXCEPT ![d] = FailBlock(k)]
    /\ IF FailBlock(k) = << >>
       THEN /\ pc' = [pc EXCEPT ![d] = "failed"]
            /\ ret' = [ret EXCEPT ![d] = rc]
       ELSE /\ pc' = [pc EXCEPT ![d] = "unwind"]
            /\ UNCHANGED ret

\* --------------------------------------------------------- host runtime
\* a device appears on the bus carrying some (vendor, device) pair
Discover(d) ==
    /\ pc[d] = "absent"
    /\ \E id \in Idents : ident' = [ident EXCEPT ![d] = id]
    /\ pc' = [pc EXCEPT ![d] = "present"]
    /\ UNCHANGED << probes, enabled, regions, maps, dmabufs, irqreg, drvdata,
                    loc, todo, ret, acqLog, relLog, irqlog >>

\* the host runtime consults .id_table and calls .probe on a match; a device
\* whose probe failed may be offered to the driver again
HostBind(d) ==
    /\ pc[d] \in {"present", "failed"}
    /\ probes[d] < MaxProbes
    /\ IF Matches(ident[d][1], ident[d][2])
       THEN /\ pc' = [pc EXCEPT ![d] = "enable"]
            /\ probes' = [probes EXCEPT ![d] = @ + 1]
            /\ loc' = [loc EXCEPT ![d] = NoLocals]
            /\ acqLog' = [acqLog EXCEPT ![d] = << >>]
            /\ relLog' = [relLog EXCEPT ![d] = << >>]
            /\ irqlog' = [irqlog EXCEPT ![d] = << >>]
       ELSE /\ pc[d] = "present"
            /\ pc' = [pc EXCEPT ![d] = "nomatch"]
            /\ UNCHANGED << probes, loc, acqLog, relLog, irqlog >>
    /\ UNCHANGED << ident, enabled, regions, maps, dmabufs, irqreg, drvdata,
                    todo, ret >>

\* ------------------------------------------------------- fpga_pci_probe
\* step 1: err = pci_enable_device(pdev)
ProbeEnable(d) ==
    /\ pc[d] = "enable"
    /\ \/ /\ enabled' = [enabled EXCEPT ![d] = TRUE]
          /\ acqLog' = [acqLog EXCEPT ![d] = Append(@, Acq("pci_enable_device", TRUE, 0, 0))]
          /\ pc' = [pc EXCEPT ![d] = "regions"]
          /\ UNCHANGED << loc, todo, ret >>
       \/ \E e \in Errnos :
          /\ acqLog' = [acqLog EXCEPT ![d] = Append(@, Acq("pci_enable_device", FALSE, e, 0))]
          /\ ProbeFail(d, 1, e)
          /\ UNCHANGED enabled
    /\ UNCHANGED << ident, probes, regions, maps, dmabufs, irqreg, drvdata,
                    relLog, irqlog >>

\* step 2: err = pci_request_regions(pdev, DRIVER_NAME)
ProbeRequestRegions_noreturn(d) ==
    /\ pc[d] = "regions"
    /\ \/ /\ regions' = [regions EXCEPT ![d] = TRUE]
          /\ acqLog' = [acqLog EXCEPT ![d] = Append(@, Acq("pci_request_regions", TRUE, 0, 0))]
       \/ \E e \in Errnos :
          /\ acqLog' = [acqLog EXCEPT ![d] = Append(@, Acq("pci_request_regions", FALSE, e, 0))]
          /\ UNCHANGED regions
    /\ pc' = [pc EXCEPT ![d] = "iomap"]
    /\ UNCHANGED << ident, probes, enabled, maps, dmabufs, irqreg, drvdata,
                    loc, todo, ret, relLog, irqlog >>

ProbeRequestRegions(d) ==
    /\ pc[d] = "regions"
    /\ \/ /\ regions' = [regions EXCEPT ![d] = TRUE]
          /\ acqLog' = [acqLog EXCEPT ![d] = Append(@, Acq("pci_request_regions", TRUE, 0, 0))]
          /\ pc' = [pc EXCEPT ![d] = "iomap"]
          /\ UNCHANGED << loc, todo, ret >>
       \/ \E e \in Errnos :
          /\ acqLog' = [acqLog EXCEPT ![d] = Append(@, Acq("pci_request_regions", FALSE, e, 0))]
          /\ ProbeFail(d, 2, e)
          /\ UNCHANGED regions
    /\ UNCHANGED << ident, probes, enabled, maps, dmabufs, irqreg, drvdata,
                    relLog, irqlog >>

\* step 3: hw_addr = pci_iomap(pdev, 0, pci_resource_len(pdev, 0))
ProbeIomap(d) ==
    /\ pc[d] = "iomap"
    /\ \/ \E va \in VAddrs \ UsedVAddrs :
          /\ maps' = [maps EXCEPT ![d] = @ \cup
                {[va |-> va, kind |-> "mmio", pa |-> pci_resource_start(d),
                  len |-> pci_resource_len(d)]}]
          /\ loc' = [loc EXCEPT ![d].hw_addr = va]
          /\ acqLog' = [acqLog EXCEPT ![d] = Append(@, Acq("pci_iomap", TRUE, va, 0))]
          /\ pc' = [pc EXCEPT ![d] = "wcmap"]
          /\ UNCHANGED << todo, ret >>
       \/ /\ acqLog' = [acqLog EXCEPT ![d] = Append(@, Acq("pci_iomap", FALSE, NULL, 0))]
          /\ ProbeFail(d, 3, -ENOMEM)
          /\ UNCHANGED maps
    /\ UNCHANGED << ident, probes, enabled, regions, dmabufs, irqreg, drvdata,
                    relLog, irqlog >>

\* step 4: wc_mem = ioremap_wc(pci_resource_start(pdev, 0), pci_resource_len(pdev, 0))
ProbeIoremapWc_otherbar(d) ==
    /\ pc[d] = "wcmap"
    /\ \/ \E va \in VAddrs \ UsedVAddrs :
          /\ maps' = [maps EXCEPT ![d] = @ \cup
                {[va |-> va, kind |-> "wc",
                  pa |-> pci_resource_start(d) + pci_resource_len(d),
                  len |-> pci_resource_len(d)]}]
          /\ loc' = [loc EXCEPT ![d].wc_mem = va]
          /\ acqLog' = [acqLog EXCEPT ![d] = Append(@, Acq("ioremap_wc", TRUE, va, 0))]
          /\ pc' = [pc EXCEPT ![d] = "dma"]
          /\ UNCHANGED << todo, ret >>
       \/ /\ acqLog' = [acqLog EXCEPT ![d] = Append(@, Acq("ioremap_wc", FALSE, NULL, 0))]
          /\ ProbeFail(d, 4, -ENOMEM)
          /\ UNCHANGED maps
    /\ UNCHANGED << ident, probes, enabled, regions, dmabufs, irqreg, drvdata,
                    relLog, irqlog >>

ProbeIoremapWc(d) ==
    /\ pc[d] = "wcmap"
    /\ \/ \E va \in VAddrs \ UsedVAddrs :
          /\ maps' = [maps EXCEPT ![d] = @ \cup
                {[va |-> va, kind |-> "wc", pa |-> pci_resource_start(d),
                  len |-> pci_resource_len(d)]}]
          /\ loc' = [loc EXCEPT ![d].wc_mem = va]
          /\ acqLog' = [acqLog EXCEPT ![d] = Append(@, Acq("ioremap_wc", TRUE, va, 0))]
          /\ pc' = [pc EXCEPT ![d] = "dma"]
          /\ UNCHANGED << todo, ret >>
       \/ /\ acqLog' = [acqLog EXCEPT ![d] = Append(@, Acq("ioremap_wc", FALSE, NULL, 0))]
          /\ ProbeFail(d, 4, -ENOMEM)
          /\ UNCHANGED maps
    /\ UNCHANGED << ident, probes, enabled, regions, dmabufs, irqreg, drvdata,
                    relLog, irqlog >>

\* step 5: dma_buffer = dma_alloc_coherent(&pdev->dev, dma_size, &dma_handle, GFP_KERNEL)
ProbeDmaAlloc_retry(d) ==
    /\ pc[d] = "dma"
    /\ \/ \E va \in VAddrs \ UsedVAddrs, bus \in BusAddrs \ UsedBus :
          /\ dmabufs' = [dmabufs EXCEPT ![d] = @ \cup
                {[cpu |-> va, bus |-> bus, size |-> dma_size]}]
          /\ loc' = [loc EXCEPT ![d].dma_buffer = va, ![d].dma_handle = bus]
          /\ acqLog' = [acqLog EXCEPT ![d] = Append(@, Acq("dma_alloc_coherent", TRUE, va, bus))]
          /\ pc' = [pc EXCEPT ![d] = "setdrv"]
          /\ UNCHANGED << todo, ret >>
       \/ /\ Len(acqLog[d]) = 4
          /\ acqLog' = [acqLog EXCEPT ![d] = Append(@, Acq("dma_alloc_coherent", FALSE, NULL, 0))]
          /\ UNCHANGED << dmabufs, loc, todo, ret, pc >>
       \/ /\ Len(acqLog[d]) > 4
          /\ acqLog' = [acqLog EXCEPT ![d] = Append(@, Acq("dma_alloc_coherent", FALSE, NULL, 0))]
          /\ ProbeFail(d, 5, -ENOMEM)
          /\ UNCHANGED dmabufs
    /\ UNCHANGED << ident, probes, enabled, regions, maps, irqreg, drvdata,
                    relLog, irqlog >>

ProbeDmaAlloc(d) ==
    /\ pc[d] = "dma"
    /\ \/ \E va \in VAddrs \ UsedVAddrs, bus \in BusAddrs \ UsedBus :
          /\ dmabufs' = [dmabufs EXCEPT ![d] = @ \cup
                {[cpu |-> va, bus |-> bus, size |-> dma_size]}]
          /\ loc' = [loc EXCEPT ![d].dma_buffer = va, ![d].dma_handle = bus]
          /\ acqLog' = [acqLog EXCEPT ![d] = Append(@, Acq("dma_alloc_coherent", TRUE, va, bus))]
          /\ pc' = [pc EXCEPT ![d] = "setdrv"]
          /\ UNCHANGED << todo, ret >>
       \/ /\ acqLog' = [acqLog EXCEPT ![d] = Append(@, Acq("dma_alloc_coherent", FALSE, NULL, 0))]
          /\ ProbeFail(d, 5, -ENOMEM)
          /\ UNCHANGED dmabufs
    /\ UNCHANGED << ident, probes, enabled, regions, maps, irqreg, drvdata,
                    relLog, irqlog >>

\* pci_set_drvdata(pdev, hw_addr), placed before the interrupt is requested;
\* irq = pdev->irq
ProbeSetDrvdata(d) ==
    /\ pc[d] = "setdrv"
    /\ drvdata' = [drvdata EXCEPT ![d] = loc[d].hw_addr]
    /\ loc' = [loc EXCEPT ![d].irq = PdevIrq(d)]
    /\ pc' = [pc EXCEPT ![d] = "irq"]
    /\ UNCHANGED << ident, probes, enabled, regions, maps, dmabufs, irqreg,
                    todo, ret, acqLog, relLog, irqlog >>

\* step 6: err = request_irq(irq, fpga_pci_irq_handler, IRQF_SHARED, DRIVER_NAME, pdev)
ProbeRequestIrq(d) ==
    /\ pc[d] = "irq"
    /\ \/ /\ irqreg' = [irqreg EXCEPT ![d] = TRUE]
          /\ acqLog' = [acqLog EXCEPT ![d] = Append(@, Acq("request_irq", TRUE, loc[d].irq, 0))]
          /\ pc' = [pc EXCEPT ![d] = "probe_ret"]
          /\ UNCHANGED << loc, todo, ret >>
       \/ \E e \in Errnos :
          /\ acqLog' = [acqLog EXCEPT ![d] = Append(@, Acq("request_irq", FALSE, e, 0))]
          /\ ProbeFail(d, 6, e)
          /\ UNCHANGED irqreg
    /\ UNCHANGED << ident, probes, enabled, regions, maps, dmabufs, drvdata,
                    relLog, irqlog >>

\* the next release of the failure branch; after the last one probe returns rc
ProbeUnwind(d) ==
    /\ pc[d] = "unwind"
    /\ todo[d] # << >>
    /\ Release(d, Head(todo[d]))
    /\ todo' = [todo EXCEPT ![d] = Tail(@)]
    /\ IF Tail(todo[d]) = << >>
       THEN /\ pc' = [pc EXCEPT ![d] = "failed"]
            /\ ret' = [ret EXCEPT ![d] = loc[d].rc]
       ELSE UNCHANGED << pc, ret >>
    /\ UNCHANGED << ident, probes, drvdata, loc, acqLog, irqlog >>

\* return 0
ProbeReturn(d) ==
    /\ pc[d] = "probe_ret"
    /\ ret' = [ret EXCEPT ![d] = 0]
    /\ pc' = [pc EXCEPT ![d] = "bound"]
    /\ UNCHANGED << ident, probes, enabled, regions, maps, dmabufs, irqreg,
                    drvdata, loc, todo, acqLog, relLog, irqlog >>

\* ------------------------------------------------------ fpga_pci_remove
\* the host runtime calls .remove once for a bound device;
\* hw_addr = pci_get_drvdata(pdev)
RemoveGetDrvdata(d) ==
    /\ pc[d] = "bound"
    /\ loc' = [loc EXCEPT ![d] = [NoLocals EXCEPT !.hw_addr = drvdata[d]]]
    /\ relLog' = [relLog EXCEPT ![d] = << >>]
    /\ pc' = [pc EXCEPT ![d] = "r_wcmap"]
    /\ UNCHANGED << ident, probes, enabled, regions, maps, dmabufs, irqreg,
                    drvdata, todo, ret, acqLog, irqlog >>

\* wc_mem = ioremap_wc(...): a new mapping is made inside remove; irq = pdev->irq
RemoveIoremapWc(d) ==
    /\ pc[d] = "r_wcmap"
    /\ \/ \E va \in VAddrs \ UsedVAddrs :
          /\ maps' = [maps EXCEPT ![d] = @ \cup
                {[va |-> va, kind |-> "wc", pa |-> pci_resource_start(d),
                  len |-> pci_resource_len(d)]}]
          /\ loc' = [loc EXCEPT ![d].wc_mem = va, ![d].irq = PdevIrq(d)]
          /\ acqLog' = [acqLog EXCEPT ![d] = Append(@, Acq("ioremap_wc", TRUE, va, 0))]
       \/ /\ loc' = [loc EXCEPT ![d].wc_mem = NULL, ![d].irq = PdevIrq(d)]
          /\ acqLog' = [acqLog EXCEPT ![d] = Append(@, Acq("ioremap_wc", FALSE, NULL, 0))]
          /\ UNCHANGED maps
    /\ pc' = [pc EXCEPT ![d] = "r_dma"]
    /\ UNCHANGED << ident, probes, enabled, regions, dmabufs, irqreg, drvdata,
                    todo, ret, relLog, irqlog >>

\* dma_buffer = dma_alloc_coherent(...): a new buffer is allocated inside remove;
\* when it fails dma_handle is never written and holds an indeterminate value
RemoveDmaAlloc(d) ==
    /\ pc[d] = "r_dma"
    /\ \/ \E va \in VAddrs \ UsedVAddrs, bus \in BusAddrs \ UsedBus :
          /\ dmabufs' = [dmabufs EXCEPT ![d] = @ \cup
                {[cpu |-> va, bus |-> bus, size |-> dma_size]}]
          /\ loc' = [loc EXCEPT ![d].dma_buffer = va, ![d].dma_handle = bus]
          /\ acqLog' = [acqLog EXCEPT ![d] = Append(@, Acq("dma_alloc_coherent", TRUE, va, bus))]
       \/ \E garbage \in BusAddrs \cup {0} :
          /\ loc' = [loc EXCEPT ![d].dma_buffer = NULL, ![d].dma_handle = garbage]
          /\ acqLog' = [acqLog EXCEPT ![d] = Append(@, Acq("dma_alloc_coherent", FALSE, NULL, 0))]
          /\ UNCHANGED dmabufs
    /\ todo' = [todo EXCEPT ![d] = RemoveBlock]
    /\ pc' = [pc EXCEPT ![d] = "r_release"]
    /\ UNCHANGED << ident, probes, enabled, regions, maps, irqreg, drvdata,
                    ret, relLog, irqlog >>

\* the next release of remove; after the last one remove returns
RemoveRelease(d) ==
    /\ pc[d] = "r_release"
    /\ todo[d] # << >>
    /\ Release(d, Head(todo[d]))
    /\ todo' = [todo EXCEPT ![d] = Tail(@)]
    /\ pc' = [pc EXCEPT ![d] = IF Tail(todo[d]) = << >> THEN "removed" ELSE @]
    /\ UNCHANGED << ident, probes, drvdata, loc, ret, acqLog, irqlog >>

\* ------------------------------------------------- fpga_pci_irq_handler
fpga_pci_irq_handler(irq, dev_id) == "IRQ_HANDLED"

\* the shared line is signalled, by this board or by a peer on the same line,
\* and the host runtime calls every handler registered on it
IrqDispatch_touch(d) ==
    /\ irqreg[d]
    /\ drvdata[d] # NULL
    /\ \E src \in {"self", "peer"} :
          irqlog' = [irqlog EXCEPT ![d] =
              << [src |-> src, verdict |-> fpga_pci_irq_handler(PdevIrq(d), d),
                  odd |-> (@ = << >>) \/ ~@[1].odd] >>]
    /\ drvdata' = [drvdata EXCEPT ![d] = NULL]
    /\ UNCHANGED << ident, pc, probes, enabled, regions, maps, dmabufs, irqreg,
                    loc, todo, ret, acqLog, relLog >>

IrqDispatch(d) ==
    /\ irqreg[d]
    /\ \E src \in {"self", "peer"} :
          irqlog' = [irqlog EXCEPT ![d] =
              << [src |-> src, verdict |-> fpga_pci_irq_handler(PdevIrq(d), d),
                  odd |-> (@ = << >>) \/ ~@[1].odd] >>]
    /\ UNCHANGED << ident, pc, probes, enabled, regions, maps, dmabufs, irqreg,
                    drvdata, loc, todo, ret, acqLog, relLog >>

\* ------------------------------------------------------- specification
\* devices the host runtime presents to the driver
Attached == {1}

Next ==
    \E d \in Attached :
        \/ Discover(d)
        \/ HostBind(d)
        \/ ProbeEnable(d)
        \/ ProbeRequestRegions(d)
        \/ ProbeIomap(d)
        \/ ProbeIoremapWc(d)
        \/ ProbeDmaAlloc(d)
        \/ ProbeSetDrvdata(d)
        \/ ProbeRequestIrq(d)
        \/ ProbeUnwind(d)
        \/ ProbeReturn(d)
        \/ RemoveGetDrvdata(d)
        \/ RemoveIoremapWc(d)
        \/ RemoveDmaAlloc(d)
        \/ RemoveRelease(d)
        \/ IrqDispatch(d)

Spec == Init /\ [][Next]_vars

\* the steps taken inside a running probe or remove: each is one synchronous
\* call that completes, so a running function always takes its next step
DrvStep(d) ==
    \/ ProbeEnable(d)
    \/ ProbeRequestRegions(d)
    \/ ProbeIomap(d)
    \/ ProbeIoremapWc(d)
    \/ ProbeDmaAlloc(d)
    \/ ProbeSetDrvdata(d)
    \/ ProbeRequestIrq(d)
    \/ ProbeUnwind(d)
    \/ ProbeReturn(d)
    \/ RemoveIoremapWc(d)
    \/ RemoveDmaAlloc(d)
    \/ RemoveRelease(d)


\* every step of the lifecycle of one device: the host runtime's calls and the
\* steps of its probe and remove
DevNext(d) ==
    \/ Discover(d)
    \/ HostBind(d)
    \/ DrvStep(d)
    \/ RemoveGetDrvdata(d)

\* the allocators hand out the lowest free address
FirstFit ==
    /\ \A va \in UsedVAddrs' \ UsedVAddrs :
           \A lower \in VAddrs \ UsedVAddrs : va <= lower
    /\ \A bus \in UsedBus' \ UsedBus :
           \A lower \in BusAddrs \ UsedBus : bus <= lower

\* each board is offered to the driver once
ProbedOnce == \A d \in Devices : probes'[d] <= 1

\* two boards matching the table, probed and removed on independent execution
\* contexts: the steps of the two interleave freely
NextTwo == \E d \in Devices : DevNext(d) /\ FirstFit /\ ProbedOnce

SpecTwo == Init /\ [][NextTwo]_vars

\* one board, lowest-free-address allocation, and a running probe or remove
\* always takes its next step
FairNext == Next /\ FirstFit

FairSpec ==
    Init /\ [][FairNext]_vars /\ \A d \in Devices : WF_vars(DrvStep(d) /\ FirstFit)

\* ------------------------------------------- the three-step driver, fpga_pci.c
\* the releases written in the failure branch of step k of its probe
BasicFailBlock_leaky(k) ==
    CASE k = 1 -> << >>
      [] k = 2 -> << "pci_disable_device" >>
      [] k = 3 -> << "pci_disable_device" >>

BasicFailBlock(k) ==
    CASE k = 1 -> << >>
      [] k = 2 -> << "pci_disable_device" >>
      [] k = 3 -> << "pci_release_regions", "pci_disable_device" >>

\* the releases written in its remove
BasicRemoveBlock ==
    << "pci_iounmap", "pci_release_regions", "pci_disable_device" >>

\* step k failed: run its cleanup block, then return rc
BasicProbeFail(d, k, rc) ==
    /\ loc' = [loc EXCEPT ![d].rc = rc, ![d].err = IF k \in {1, 2} THEN rc ELSE @]
    /\ todo' = [todo EXCEPT ![d] = BasicFailBlock(k)]
    /\ IF BasicFailBlock(k) = << >>
       THEN /\ pc' = [pc EXCEPT ![d] = "failed"]
            /\ ret' = [ret EXCEPT ![d] = rc]
       ELSE /\ pc' = [pc EXCEPT ![d] = "unwind"]
            /\ UNCHANGED ret

\* step 1: err = pci_enable_device(pdev)
BasicProbeEnable(d) ==
    /\ pc[d] = "enable"
    /\ \/ /\ enabled' = [enabled EXCEPT ![d] = TRUE]
          /\ acqLog' = [acqLog EXCEPT ![d] = Append(@, Acq("pci_enable_device", TRUE, 0, 0))]
          /\ pc' = [pc EXCEPT ![d] = "regions"]
          /\ UNCHANGED << loc, todo, ret >>
       \/ \E e \in Errnos :
          /\ acqLog' = [acqLog EXCEPT ![d] = Append(@, Acq("pci_enable_device", FALSE, e, 0))]
          /\ BasicProbeFail(d, 1, e)
          /\ UNCHANGED enabled
    /\ UNCHANGED << ident, probes, regions, maps, dmabufs, irqreg, drvdata,
                    relLog, irqlog >>

\* step 2: err = pci_request_regions(pdev, DRIVER_NAME)
BasicProbeRequestRegions(d) ==
    /\ pc[d] = "regions"
    /\ \/ /\ regions' = [regions EXCEPT ![d] = TRUE]
          /\ acqLog' = [acqLog EXCEPT ![d] = Append(@, Acq("pci_request_regions", TRUE, 0, 0))]
          /\ pc' = [pc EXCEPT ![d] = "iomap"]
          /\ UNCHANGED << loc, todo, ret >>
       \/ \E e \in Errnos :
          /\ acqLog' = [acqLog EXCEPT ![d] = Append(@, Acq("pci_request_regions", FALSE, e, 0))]
          /\ BasicProbeFail(d, 2, e)
          /\ UNCHANGED regions
    /\ UNCHANGED << ident, probes, enabled, maps, dmabufs, irqreg, drvdata,
                    relLog, irqlog >>

\* step 3: hw_addr = pci_iomap(pdev, 0, pci_resource_len(pdev, 0))
BasicProbeIomap(d) ==
    /\ pc[d] = "iomap"
    /\ \/ \E va \in VAddrs \ UsedVAddrs :
          /\ maps' = [maps EXCEPT ![d] = @ \cup
                {[va |-> va, kind |-> "mmio", pa |-> pci_resource_start(d),
                  len |-> pci_resource_len(d)]}]
          /\ loc' = [loc EXCEPT ![d].hw_addr = va]
          /\ acqLog' = [acqLog EXCEPT ![d] = Append(@, Acq("pci_iomap", TRUE, va, 0))]
          /\ pc' = [pc EXCEPT ![d] = "setdrv"]
          /\ UNCHANGED << todo, ret >>
       \/ /\ acqLog' = [acqLog EXCEPT ![d] = Append(@, Acq("pci_iomap", FALSE, NULL, 0))]
          /\ BasicProbeFail(d, 3, -ENOMEM)
          /\ UNCHANGED maps
    /\ UNCHANGED << ident, probes, enabled, regions, dmabufs, irqreg, drvdata,
                    relLog, irqlog >>

\* pci_set_drvdata(pdev, hw_addr); return 0
BasicProbeSetDrvdata(d) ==
    /\ pc[d] = "setdrv"
    /\ drvdata' = [drvdata EXCEPT ![d] = loc[d].hw_addr]
    /\ ret' = [ret EXCEPT ![d] = 0]
    /\ pc' = [pc EXCEPT ![d] = "bound"]
    /\ UNCHANGED << ident, probes, enabled, regions, maps, dmabufs, irqreg,
                    loc, todo, acqLog, relLog, irqlog >>

\* the next release of the failure branch; after the last one probe returns rc
BasicProbeUnwind(d) ==
    /\ pc[d] = "unwind"
    /\ todo[d] # << >>
    /\ Release(d, Head(todo[d]))
    /\ todo' = [todo EXCEPT ![d] = Tail(@)]
    /\ IF Tail(todo[d]) = << >>
       THEN /\ pc' = [pc EXCEPT ![d] = "failed"]
            /\ ret' = [ret EXCEPT ![d] = loc[d].rc]
       ELSE UNCHANGED << pc, ret >>
    /\ UNCHANGED << ident, probes, drvdata, loc, acqLog, irqlog >>

\* the host runtime calls .remove once for a bound device;
\* hw_addr = pci_get_drvdata(pdev)
BasicRemoveGetDrvdata(d) ==
    /\ pc[d] = "bound"
    /\ loc' = [loc EXCEPT ![d] = [NoLocals EXCEPT !.hw_addr = drvdata[d]]]
    /\ relLog' = [relLog EXCEPT ![d] = << >>]
    /\ todo' = [todo EXCEPT ![d] = BasicRemoveBlock]
    /\ pc' = [pc EXCEPT ![d] = "r_release"]
    /\ UNCHANGED << ident, probes, enabled, regions, maps, dmabufs, irqreg,
                    drvdata, ret, acqLog, irqlog >>

\* the next release of remove; after the last one remove returns
BasicRemoveRelease(d) ==
    /\ pc[d] = "r_release"
    /\ todo[d] # << >>
    /\ Release(d, Head(todo[d]))
    /\ todo' = [todo EXCEPT ![d] = Tail(@)]
    /\ pc' = [pc EXCEPT ![d] = IF Tail(todo[d]) = << >> THEN "removed" ELSE @]
    /\ UNCHANGED << ident, probes, drvdata, loc, ret, acqLog, irqlog >>

NextBasic ==
    \E d \in Attached :
        \/ Discover(d)
        \/ HostBind(d)
        \/ BasicProbeEnable(d)
        \/ BasicProbeRequestRegions(d)
        \/ BasicProbeIomap(d)
        \/ BasicProbeSetDrvdata(d)
        \/ BasicProbeUnwind(d)
        \/ BasicRemoveGetDrvdata(d)
        \/ BasicRemoveRelease(d)

SpecBasic == Init /\ [][NextBasic]_vars

\* ------------------------------------------------------------- helpers
LiveCount(d) ==
    (IF enabled[d] THEN 1 ELSE 0) + (IF regions[d] THEN 1 ELSE 0)
    + Cardinality(maps[d]) + Cardinality(dmabufs[d])
    + (IF irqreg[d] THEN 1 ELSE 0)

TypeOK ==
    /\ pc \in [Devices -> {"absent", "present", "nomatch", "enable", "regions",
                           "iomap", "wcmap", "dma", "setdrv", "irq", "unwind",
                           "probe_ret", "failed", "bound", "r_wcmap", "r_dma",
                           "r_release", "removed"}]
    /\ enabled \in [Devices -> BOOLEAN]
    /\ regions \in [Devices -> BOOLEAN]
    /\ irqreg \in [Devices -> BOOLEAN]
    /\ drvdata \in [Devices -> VAddrs \cup {NULL}]

\* the six acquisition steps in order, and the release that undoes each
AcqOrder == << "pci_enable_device", "pci_request_regions", "pci_iomap",
               "ioremap_wc", "dma_alloc_coherent", "request_irq" >>
ReleaseOf(op) ==
    CASE op = "pci_enable_device" -> "pci_disable_device"
      [] op = "pci_request_regions" -> "pci_release_regions"
      [] op = "pci_iomap" -> "pci_iounmap"
      [] op = "ioremap_wc" -> "iounmap"
      [] op = "dma_alloc_coherent" -> "dma_free_coherent"
      [] op = "request_irq" -> "free_irq"
\* releases of steps k-1 down to 1
ReverseBelow(k) == [i \in 1..(k - 1) |-> ReleaseOf(AcqOrder[k - i])]
\* the operations named in a log
Ops(log) == [i \in 1..Len(log) |-> log[i].op]
\* the step of the running (or last) probe that failed; 0 if none has
FailedStep(d) ==
    IF acqLog[d] # << >> /\ ~acqLog[d][Len(acqLog[d])].ok /\ pc[d] \in {"unwind", "failed"}
    THEN Len(acqLog[d]) ELSE 0
IsPrefix(s, t) == Len(s) <= Len(t) /\ \A i \in 1..Len(s) : s[i] = t[i]
\* fpga_pci_probe is running: entered and not yet returned
InProbe(d) == pc[d] \in {"enable", "regions", "iomap", "wcmap", "dma", "setdrv",
                         "irq", "unwind", "probe_ret"}
\* what the driver data of the device holds: one pointer
ContextHandles(d) == IF drvdata[d] = NULL THEN {} ELSE { << "vaddr", drvdata[d] >> }

\* ---------------------------------------------------------------- claims

\* C1: when step k of probe fails after steps 1..k-1 succeeded, the device
\* holds no live resource once probe has returned: it is disabled, its regions
\* are released, and no mapping, DMA buffer or interrupt registration is held.
C1_NoLiveAfterFailedProbe ==
    \A d \in Devices :
        (pc[d] = "failed" /\ FailedStep(d) \in 1..6) =>
            /\ LiveCount(d) = 0
            /\ ~enabled[d] /\ ~regions[d] /\ ~irqreg[d]
            /\ maps[d] = {} /\ dmabufs[d] = {}

\* step 6 failed after five acquisitions, and probe has returned
C1_Witness ==
    \E d \in Devices :
        /\ pc[d] = "failed" /\ FailedStep(d) = 6
        /\ \A i \in 1..5 : acqLog[d][i].ok
        /\ Len(relLog[d]) = 5

\* C2: after a successful probe, remove passes to each release the handle the
\* matching acquisition of that probe returned: the write-combined mapping it
\* unmaps and the CPU and bus address of the buffer it frees are probe's.
C2_RemoveUsesProbeHandles ==
    \A d \in Devices :
        pc[d] = "removed" =>
            \A i \in 1..Len(relLog[d]) :
                /\ relLog[d][i].op = "iounmap" => relLog[d][i].a = acqLog[d][4].a
                /\ relLog[d][i].op = "dma_free_coherent" =>
                       /\ relLog[d][i].a = acqLog[d][5].a
                       /\ relLog[d][i].b = acqLog[d][5].b

\* C3: after a successful probe followed by its removal the device holds no
\* live resource: everything acquired between probe entry and remove return
\* is released, the device is disabled and its regions are released.
C3_NoLiveAfterRemove ==
    \A d \in Devices :
        pc[d] = "removed" =>
            /\ LiveCount(d) = 0
            /\ ~enabled[d] /\ ~regions[d]

\* C4: the releases remove performs are exactly free interrupt, free DMA
\* buffer, unmap write-combined alias, unmap MMIO, release regions, disable
\* device, in that order, with no other release before, between or after.
C4_RemoveReleaseOrder ==
    \A d \in Devices :
        /\ pc[d] = "removed" =>
               Ops(relLog[d]) = << "free_irq", "dma_free_coherent", "iounmap",
                                   "pci_iounmap", "pci_release_regions",
                                   "pci_disable_device" >>
        /\ pc[d] \in {"r_wcmap", "r_dma", "r_release"} =>
               IsPrefix(Ops(relLog[d]),
                        << "free_irq", "dma_free_coherent", "iounmap",
                           "pci_iounmap", "pci_release_regions",
                           "pci_disable_device" >>)

\* remove has run to its end after a successful probe
C4_Witness ==
    \E d \in Devices :
        pc[d] = "removed" /\ Len(relLog[d]) = 6 /\ ret[d] = 0

\* C5: when step k of probe fails, the releases performed are exactly those of
\* steps k-1 down to 1 in that order, and none for step k or a later step; a
\* failure of step 4 yields exactly MMIO unmap, region release, disable.
C5_UnwindOrder ==
    \A d \in Devices :
        /\ pc[d] = "failed" => Ops(relLog[d]) = ReverseBelow(FailedStep(d))
        /\ pc[d] = "unwind" => IsPrefix(Ops(relLog[d]), ReverseBelow(FailedStep(d)))
        /\ (pc[d] = "failed" /\ FailedStep(d) = 4) =>
               Ops(relLog[d]) = << "pci_iounmap", "pci_release_regions",
                                   "pci_disable_device" >>

\* the write-combined mapping failed and probe has unwound and returned
C5_Witness ==
    \E d \in Devices :
        /\ pc[d] = "failed" /\ FailedStep(d) = 4
        /\ acqLog[d][4].op = "ioremap_wc"
        /\ Len(relLog[d]) = 3

\* C6: no driver data is associated with the device while a probe is in
\* progress or after a probe has failed.
C6_NoContextBeforeSuccess ==
    \A d \in Devices :
        ((InProbe(d) /\ pc[d] # "probe_ret") \/ pc[d] = "failed") => drvdata[d] = NULL

\* C7: when probe has returned success the driver data records the MMIO
\* mapping, the write-combined mapping, the DMA buffer's CPU and bus address
\* and the interrupt line acquired by that probe.
C7_ContextRecordsAll ==
    \A d \in Devices :
        pc[d] = "bound" =>
            /\ << "vaddr", acqLog[d][3].a >> \in ContextHandles(d)
            /\ << "vaddr", acqLog[d][4].a >> \in ContextHandles(d)
            /\ << "vaddr", acqLog[d][5].a >> \in ContextHandles(d)
            /\ << "bus", acqLog[d][5].b >> \in ContextHandles(d)
            /\ << "irq", acqLog[d][6].a >> \in ContextHandles(d)

\* C8: probe returns 0 exactly when all six steps succeeded; when step k fails
\* it returns a non-zero code: the failing primitive's own code for enable,
\* region reservation and interrupt registration, -ENOMEM for the two mappings
\* and the DMA allocation.
C8_ProbeReturnCode ==
    \A d \in Devices :
        /\ pc[d] = "bound" =>
               /\ ret[d] = 0
               /\ Len(acqLog[d]) = 6
               /\ \A i \in 1..6 : acqLog[d][i].ok /\ acqLog[d][i].op = AcqOrder[i]
        /\ pc[d] = "failed" =>
               /\ ret[d] # 0
               /\ FailedStep(d) \in 1..6
               /\ acqLog[d][FailedStep(d)].op = AcqOrder[FailedStep(d)]
               /\ FailedStep(d) \in {1, 2, 6} => ret[d] = acqLog[d][FailedStep(d)].a
               /\ FailedStep(d) \in {3, 4, 5} => ret[d] = -ENOMEM

\* the interrupt registration failed with a code other than -ENOMEM and probe
\* returned that code
C8_Witness ==
    \E d \in Devices :
        /\ pc[d] = "failed" /\ FailedStep(d) = 6
        /\ acqLog[d][6].a = -16 /\ ret[d] = -16

\* C9: for a signal raised by another device sharing the line the interrupt
\* handler returns not-handled.
C9_PeerSignalNotHandled ==
    \A d \in Devices :
        (irqlog[d] # << >> /\ irqlog[d][1].src = "peer") =>
            irqlog[d][1].verdict = "IRQ_NONE"

\* C10: the match is true for the pair (0x1234, 0x5678) and false for every
\* other pair, probe is called only for a device carrying that pair, and a
\* device carrying another pair never has an acquisition step run.
C10_ProbeOnlyOnMatch ==
    /\ \A id \in Idents : Matches(id[1], id[2]) <=> id = << 4660, 22136 >>
    /\ \A d \in Devices :
           (pc[d] # "absent" /\ ident[d] # << 4660, 22136 >>) =>
               /\ pc[d] \in {"present", "nomatch"}
               /\ probes[d] = 0
               /\ acqLog[d] = << >>
               /\ LiveCount(d) = 0

\* a device of the same vendor with another device id was offered and passed over
C10_Witness ==
    \E d \in Devices :
        pc[d] = "nomatch" /\ ident[d] = << 4660, 22137 >> /\ acqLog[d] = << >>

\* the probe that ran last has ended, or is still running
ProbeStarted(d) == pc[d] \in {"enable", "regions", "iomap", "wcmap", "dma", "setdrv",
                              "irq", "unwind", "probe_ret", "failed", "bound"}
\* the live mappings of a device of one kind
MapsOf(d, kind) == {m \in maps[d] : m.kind = kind}
\* the physical address an access at offset off through mapping m reaches
PhysAt(m, off) == m.pa + off
\* offsets sampled inside region 0: first, middle, last byte
SampleOffsets(d) == {0, pci_resource_len(d) \div 2, pci_resource_len(d) - 1}

\* C11: whenever both mappings are live, the MMIO mapping and the
\* write-combined mapping are two distinct virtual addresses over the same
\* physical range (start and length of region 0), so an access through either
\* at any offset reaches the same physical location as through the other.
C11_AliasesSameRange ==
    \A d \in Devices :
        \A m \in MapsOf(d, "mmio"), w \in MapsOf(d, "wc") :
            /\ m.va # w.va
            /\ m.pa = pci_resource_start(d) /\ w.pa = pci_resource_start(d)
            /\ m.len = pci_resource_len(d) /\ w.len = pci_resource_len(d)
            /\ \A off \in SampleOffsets(d) : PhysAt(m, off) = PhysAt(w, off)

\* probe's step 4 has succeeded: both mappings are live
C11_Witness ==
    \E d \in Devices :
        /\ pc[d] = "dma"
        /\ MapsOf(d, "mmio") # {} /\ MapsOf(d, "wc") # {}

\* C12: after remove has returned the device has no driver data any more, and
\* no stored handle refers to a mapping or buffer that has been released.
C12_ContextGoneAfterRemove ==
    \A d \in Devices :
        pc[d] = "removed" =>
            /\ drvdata[d] = NULL
            /\ \A h \in ContextHandles(d) : h[2] \in {m.va : m \in maps[d]}

\* C13: probe attempts its acquisitions only in the order enable, request
\* regions, MMIO map, write-combined map, 4096-byte DMA allocation, interrupt
\* registration; a step is attempted only after the one before it succeeded,
\* and none is attempted after the first failure.
C13_AcquisitionOrder ==
    \A d \in Devices :
        ProbeStarted(d) =>
            /\ IsPrefix(Ops(acqLog[d]), AcqOrder)
            /\ \A i \in 1..(Len(acqLog[d]) - 1) : acqLog[d][i].ok
            /\ pc[d] \in {"unwind", "failed"} => ~acqLog[d][Len(acqLog[d])].ok
            /\ ~(pc[d] \in {"unwind", "failed"}) => \A i \in 1..Len(acqLog[d]) : acqLog[d][i].ok
            /\ \A b \in dmabufs[d] : b.size = 4096

\* the DMA allocation failed after four successful steps and probe unwinds
C13_Witness ==
    \E d \in Devices :
        /\ pc[d] = "unwind" /\ Len(acqLog[d]) = 5
        /\ ~acqLog[d][5].ok /\ \A i \in 1..4 : acqLog[d][i].ok

\* C17: in every state in which the interrupt handler is registered, the
\* device is enabled, its regions are reserved, and the MMIO mapping, the
\* write-combined mapping and the DMA buffer probe acquired are still live.
C17_IrqImpliesResourcesLive ==
    \A d \in Devices :
        irqreg[d] =>
            /\ enabled[d] /\ regions[d]
            /\ \E m \in MapsOf(d, "mmio") : m.va = acqLog[d][3].a
            /\ \E w \in MapsOf(d, "wc") : w.va = acqLog[d][4].a
            /\ \E b \in dmabufs[d] : b.cpu = acqLog[d][5].a /\ b.bus = acqLog[d][5].b

\* remove is running, has made its own mapping and buffer, and has not yet
\* freed the interrupt
C17_Witness ==
    \E d \in Devices :
        pc[d] = "r_release" /\ irqreg[d] /\ relLog[d] = << >>

\* one more release call was made by device d in this step
Released(d) == Len(relLog'[d]) = Len(relLog[d]) + 1
\* the handle a release call names is live when the call is made
WasLive(d, e) ==
    CASE e.op = "free_irq" -> irqreg[d] /\ e.a = PdevIrq(d)
      [] e.op = "dma_free_coherent" ->
             \E b \in dmabufs[d] : b.cpu = e.a /\ b.bus = e.b
      [] e.op = "iounmap" -> \E m \in maps[d] : m.va = e.a
      [] e.op = "pci_iounmap" -> \E m \in maps[d] : m.va = e.a
      [] e.op = "pci_release_regions" -> regions[d]
      [] e.op = "pci_disable_device" -> enabled[d]
\* the interrupt handler of device d ran in this step
Dispatched(d) == irqlog'[d] # irqlog[d] /\ irqlog'[d] # << >>
InRemove(d) == pc[d] \in {"r_wcmap", "r_dma", "r_release"}
AllSixHeld(d) ==
    /\ enabled[d] /\ regions[d] /\ irqreg[d]
    /\ MapsOf(d, "mmio") # {} /\ MapsOf(d, "wc") # {} /\ dmabufs[d] # {}

\* C15: the interrupt handler can be dispatched in every state in which the
\* interrupt is registered, the window between step 6 and probe's return
\* included; a dispatch returns a verdict and changes neither the driver data,
\* nor any resource handle, nor any other state of probe, remove or the device.
C15_HandlerTolerant ==
    /\ [](\A d \in Devices : irqreg[d] => ENABLED IrqDispatch(d))
    /\ [][\A d \in Devices :
            Dispatched(d) =>
                /\ irqlog'[d][1].verdict \in {"IRQ_HANDLED", "IRQ_NONE"}
                /\ UNCHANGED << ident, pc, probes, enabled, regions, maps, dmabufs,
                                irqreg, drvdata, loc, todo, ret, acqLog, relLog >>]_vars

\* the handler ran twice after request_irq succeeded and before probe returned
C15_Witness ==
    \E d \in Devices :
        /\ pc[d] = "probe_ret" /\ irqreg[d]
        /\ irqlog[d] # << >> /\ ~irqlog[d][1].odd

\* C16: every probe call and every remove call ends; within one probe call each
\* acquisition primitive is called at most once, and probe returns either with
\* all six resources held or with none held.
C16_TerminatesNoRetry ==
    /\ [](\A d \in Devices :
            ProbeStarted(d) =>
                /\ \A i, j \in 1..Len(acqLog[d]) :
                       i # j => acqLog[d][i].op # acqLog[d][j].op
                /\ pc[d] = "bound" => AllSixHeld(d) /\ ret[d] = 0
                /\ pc[d] = "failed" => LiveCount(d) = 0 /\ ret[d] # 0)
    /\ \A d \in Devices :
           /\ InProbe(d) ~> (pc[d] \in {"failed", "bound"})
           /\ InRemove(d) ~> (pc[d] = "removed")

\* a second probe call, made after the first one failed, has returned success
C16_Witness ==
    \E d \in Devices : pc[d] = "bound" /\ probes[d] = 2 /\ AllSixHeld(d)

\* C18: no release is applied to a handle that is not live at that moment:
\* nothing is released twice or released without having been acquired.
C18_ReleaseOnlyLive ==
    [][\A d \in Devices :
          Released(d) => WasLive(d, relLog'[d][Len(relLog'[d])])]_vars

\* everything the model holds about one device
DevState(d) ==
    << ident[d], pc[d], probes[d], enabled[d], regions[d], maps[d], dmabufs[d],
       irqreg[d], drvdata[d], loc[d], todo[d], ret[d], acqLog[d], relLog[d],
       irqlog[d] >>

\* C14: with the probe and remove calls of two matching devices interleaved,
\* the resource state of a device (enabled flag, regions, mappings, DMA buffer,
\* interrupt registration, driver data) is changed only by that device's own
\* probe or remove: a step of one device leaves the other's state unchanged.
C14_DevicesIndependent ==
    [][\A d, e \in Devices :
          (d # e /\ DevNext(e)) => DevState(d)' = DevState(d)]_vars

\* one board is about to free its interrupt in remove while the other, on the
\* same line, has just registered its own and is still inside probe
C14_Witness ==
    /\ pc[1] = "r_release" /\ irqreg[1] /\ relLog[1] = << >>
    /\ pc[2] = "probe_ret" /\ irqreg[2]

\* C19: in the three-step driver, a failure of step k releases steps k-1..1 in
\* reverse order and leaves no driver data and no live resource; a successful
\* probe stores the MMIO mapping as driver data; remove unmaps exactly that
\* mapping, then releases the regions, then disables the device, and leaves no
\* live resource.
C19_BasicDriverLifecycle ==
    \A d \in Devices :
        /\ pc[d] = "failed" =>
               /\ FailedStep(d) \in 1..3
               /\ Ops(relLog[d]) = ReverseBelow(FailedStep(d))
               /\ LiveCount(d) = 0
               /\ drvdata[d] = NULL
        /\ pc[d] = "bound" =>
               /\ drvdata[d] = acqLog[d][3].a
               /\ MapsOf(d, "mmio") = {m \in maps[d] : m.va = drvdata[d]}
               /\ LiveCount(d) = 3
        /\ pc[d] = "r_release" =>
               IsPrefix(Ops(relLog[d]), << "pci_iounmap", "pci_release_regions",
                                           "pci_disable_device" >>)
        /\ pc[d] = "removed" =>
               /\ relLog[d] = << Rel("pci_iounmap", acqLog[d][3].a, 0),
                                 Rel("pci_release_regions", 0, 0),
                                 Rel("pci_disable_device", 0, 0) >>
               /\ LiveCount(d) = 0

\* a probe that failed was followed by one that succeeded,
\* and remove has run to its end
C19_Witness ==
    \E d \in Devices :
        pc[d] = "removed" /\ probes[d] = 2 /\ Len(relLog[d]) = 3 /\ ret[d] = 0

====
